---- MODULE Spec2Model ----
(***************************************************************************)
(* pyHOK: pyRevit button scripts for Autodesk Revit.                       *)
(*                                                                         *)
(* One script runs per behaviour (the variable script names it):           *)
(*   "purge"   Family Purge.pushbutton/script.py                           *)
(*   "door"    Door Configurator.pushbutton/script.py (one door, by form)  *)
(*   "batch"   Door Configurator, ingestion of the CSV file of config.py   *)
(*   "replace" Replace Family.pushbutton/script.py                         *)
(* The host application (documents, transactions, SaveAs, the user's      *)
(* clicks and key presses) is the environment: its answers are            *)
(* nondeterministic choices; the host fails at most one call per run       *)
(* (hostMayFail).                                                          *)
(***************************************************************************)
EXTENDS Integers, Sequences, FiniteSets, TLC

VARIABLES
    script,            \* which button script this behaviour runs
    pc,                \* position of the script
    mutations,         \* log of document mutations: [script, op, doc, started]
    hostMayFail,       \* whether the host may still fail a call in this run
    \* ---- Family Purge
    families,          \* FilteredElementCollector(doc).OfClass(Family)
    choice,            \* answer of forms.CommandSwitchWindow
    cancelRequested,   \* _CANCEL_REQUESTED (set by the ESC message filter)
    pbscanCancelled,   \* pbscan.cancelled (scan progress bar's Cancel button)
    pbCancelled,       \* pb.cancelled (purge progress bar's Cancel button)
    loop_i,            \* index of the running for loop (1-based)
    rank_info,         \* list of (family, pre_kb, can_size)
    worklist,          \* rank_info or its first n_default entries
    results,           \* list of rows
    famdoc,            \* the family document opened by EditFamily
    row,               \* the row being filled in the purge loop
    cat,               \* next step of purge_family_api_only
    editLog,           \* EditFamily calls that opened a document: <<phase, family>>
    saveLog,           \* SaveAs calls that wrote a file: [fam, name]
    deleteLog,         \* families in whose document elements were deleted
    reloadLog,         \* families reloaded into the project
    report,            \* table rows printed and written to the CSV
    docIsModifiable,   \* doc.IsModifiable: the project has an open transaction
    loadCalls,         \* famdoc.LoadFamily calls: [fam, isModifiable]
    attempted,         \* families the purge loop called doc.EditFamily for, in order
    \* ---- Door Configurator
    doorm,             \* ui.Selection.GetElementIds()
    validTypes,        \* families of DB.Element.GetValidTypes(door), host order
    nestFams,          \* names of the families nested in the edited family
    paraSet,           \* shared parameters of the edited family
    form,              \* texts typed into UserDetailsForm
    args,              \* panel_type, frame_type, width, height after main()
    family_temp,       \* the family document opened by doc.EditFamily
    typeTx,            \* transaction 'Make Type and set Values'
    loadTx,            \* transaction 'Load Family'
    doorSaveLog,       \* SaveAs calls of the generator
    tempFiles,         \* files present in the temporary directory
    loadedFamilies,    \* families loaded into the project by the generator
    out,               \* lines printed by the script
    \* ---- Door Configurator, batch ingestion of the CSV file
    csvRows,           \* rows of the file at CSV_FILE_PATH, in file order
    batch_i,           \* index of the row the batch is at (1-based)
    processed,         \* generator runs started by the batch, in order
    skipLog,           \* rows the batch skipped with a logged message
    \* ---- Replace Family
    symbolIsActive,    \* selected_target_symbol.IsActive
    source_families,   \* names picked in the first SelectFromList
    detailItems,       \* detail component instances of the project, host order
    instances_to_replace,
    rep_i,             \* index of the replace loop (1-based)
    replaced_elements, \* pairs <<original id, new instance>>
    deletedIds,        \* ids of the instances doc.Delete removed
    sentToBack,        \* new instances moved to the back of the draw order
    replaceTx,         \* transaction 'Replace with offset'
    orderTx,           \* transaction 'Adjust Draw Order'
    \* ---- Project to Family
    viewIsDrafting,    \* current_view.ViewType is Detail or DraftingView
    selection,         \* the selected elements, host order
    replace,           \* answer to 'Replace Elements?'
    non_component_elements,
    detail_components,
    filtered_elements, \* ids of the filled regions, then of the lines
    centroids,
    placement_point,
    t_fam,             \* transaction 'Create Detail Family'
    t_load,            \* transaction 'Load Detail Family'
    t_replace,         \* transaction 'Replace with Family Instance'
    copied,            \* elements copied into the family, moved by transform
    new_instance,      \* where the instance of the new family was placed
    deletedElements,   \* ids the replace transaction deleted
    \* ---- pullfromfolders.py
    tree,              \* files under parent_folder: [path, name, id]
    folders,           \* folders under parent_folder, as paths
    walk,              \* folders os.walk has still to yield, bottom-up
    tree0,             \* the files under parent_folder before the call
    files,             \* names of the yielded folder still to move
    \* ---- removebackups.py
    sourceExists,      \* os.path.isdir(source_folder)
    sourceEntries,     \* entries of source_folder: [name, id]
    backupExists,      \* os.path.exists(backup_folder)
    backupEntries,     \* entries of backup_folder: [name, id]
    listed,            \* os.listdir(source_folder)
    files_to_move,     \* the filtered listing
    move_i,            \* index of the move loop (1-based)
    printed            \* lines printed by the script

purgeVars == <<families, choice, cancelRequested, pbscanCancelled, pbCancelled,
               loop_i, rank_info, worklist, results, famdoc, row, cat,
               editLog, saveLog, deleteLog, reloadLog, report,
               docIsModifiable, loadCalls, attempted>>

doorVars == <<doorm, validTypes, nestFams, paraSet, form, args, family_temp,
              typeTx, loadTx, doorSaveLog, tempFiles, loadedFamilies, out>>

reloadEnv == <<docIsModifiable, loadCalls>>

batchVars == <<csvRows, batch_i, processed, skipLog>>

replaceVars == <<symbolIsActive, source_families, detailItems, instances_to_replace,
                 rep_i, replaced_elements, deletedIds, sentToBack, replaceTx, orderTx>>

p2fVars == <<viewIsDrafting, selection, replace, non_component_elements,
             detail_components, filtered_elements, centroids, placement_point,
             t_fam, t_load, t_replace, copied, new_instance, deletedElements>>

pullVars == <<tree, tree0, folders, walk, files>>

backupVars == <<sourceExists, sourceEntries, backupExists, backupEntries,
                listed, files_to_move, move_i, printed>>

toolVars == <<p2fVars, pullVars, backupVars>>

notPurge == <<doorVars, batchVars, replaceVars, toolVars>>

vars == <<script, pc, mutations, hostMayFail, purgeVars, doorVars, batchVars, replaceVars,
          toolVars>>

(***************************************************************************)
(* Bounds of the model.                                                    *)
(***************************************************************************)
MaxFamilies == 2
RankFamilies == 6

Min(a, b) == IF a <= b THEN a ELSE b
Max(a, b) == IF a >= b THEN a ELSE b
NoSize == 0 - 1
NoDoc == [open |-> FALSE, fam |-> 0, title |-> <<>>, core |-> 0, junk |-> {}]

(***************************************************************************)
(* Family Purge: configuration toggles and the purge steps, in the order   *)
(* purge_family_api_only runs them.                                        *)
(***************************************************************************)
DELETE_UNLABELED_UNLOCKED_DIMENSIONS == FALSE
DELETE_EXTRA_VIEWS == FALSE

PurgeSteps == <<"imports_images", "nested_symbols", "family_types", "materials",
                "fill_patterns", "appearance_assets", "dimensions", "extra_views",
                "element_types">>

StepEnabled(step) ==
    CASE step = "dimensions" -> DELETE_UNLABELED_UNLOCKED_DIMENSIONS
      [] step = "extra_views" -> DELETE_EXTRA_VIEWS
      [] OTHER -> TRUE

(***************************************************************************)
(* Titles are sequences of characters: "A" a legal character, " " white    *)
(* space, "/" a character of the _illegal class.                           *)
(***************************************************************************)
IllegalChars == {"\\", "/", ":", "*", "?", "\"", "<", ">", "|"}
Whitespace == {" "}

RECURSIVE LStrip(_)
LStrip(s) == IF s # <<>> /\ Head(s) \in Whitespace THEN LStrip(Tail(s)) ELSE s

RECURSIVE RStrip(_)
RStrip(s) ==
    IF s # <<>> /\ s[Len(s)] \in Whitespace THEN RStrip(SubSeq(s, 1, Len(s) - 1)) ELSE s

Strip(s) == RStrip(LStrip(s))

_has_illegal_filename_chars(name) == \E k \in 1..Len(name) : name[k] \in IllegalChars

\* build_preserving_name_path: the file name (without directory and ".rfa"),
\* or <<>> for None.
build_preserving_name_path(fdoc) ==
    LET famname == Strip(fdoc.title)
    IN  IF famname = <<>> \/ _has_illegal_filename_chars(famname) THEN <<>> ELSE famname

(***************************************************************************)
(* The host's serializer: the bytes SaveAs writes for a family document,   *)
(* growing with the document's content.                                    *)
(***************************************************************************)
SerializedBytes(fdoc) == 1024 * fdoc.core + 700 * Cardinality(fdoc.junk)

\* file_size_kb: int(round(Length / 1024.0))
file_size_kb(bytes) == (bytes + 512) \div 1024

\* n_default = min(25, max(5, int(len(candidates) * 0.2)))
n_default(n) == Min(25, Max(5, (n * 2) \div 10))

\* every family of the project, loadable or not
AllFamilies == [k \in 1..Len(families) |-> k]

\* candidates = [f for f in families if f.IsEditable and not f.IsInPlace]
candidates ==
    LET keep == {k \in 1..Len(families) : families[k].editable /\ ~families[k].inplace}
        RECURSIVE Pick(_)
        Pick(k) == IF k > Len(families) THEN <<>>
                   ELSE (IF k \in keep THEN <<k>> ELSE <<>>) \o Pick(k + 1)
    IN  Pick(1)

\* rank_info.sort(key=lambda x: x[1], reverse=True): stable, largest first
RECURSIVE InsertDesc(_, _)
InsertDesc(sorted, e) ==
    IF sorted = <<>> THEN <<e>>
    ELSE IF Head(sorted).pre_kb >= e.pre_kb
         THEN <<Head(sorted)>> \o InsertDesc(Tail(sorted), e)
         ELSE <<e>> \o sorted

RECURSIVE SortDesc(_)
SortDesc(s) ==
    IF s = <<>> THEN <<>>
    ELSE InsertDesc(SortDesc(SubSeq(s, 1, Len(s) - 1)), s[Len(s)])

\* A sort that orders the sizes but leaves the families where they were.
SortSizesOnly(s) ==
    [k \in 1..Len(s) |-> [s[k] EXCEPT !.pre_kb = SortDesc(s)[k].pre_kb]]

\* rank_info after line 542
Ranked(s) == SortDesc(s)

\* rank_info[:n]
FirstN(s, n) == SubSeq(s, 1, Min(n, Len(s)))

process_all == (choice = "All")

\* worklist = rank_info if process_all else rank_info[:n_default]
Worklist(ranked) == IF process_all THEN ranked ELSE FirstN(ranked, n_default(Len(candidates)))

_scan_cancelled == cancelRequested \/ pbscanCancelled
_is_cancelled == cancelRequested \/ pbCancelled

EditFamily(k) ==
    [open |-> TRUE, fam |-> k, title |-> families[k].title,
     core |-> families[k].core, junk |-> families[k].junk]

Mutation(op, doc, started) ==
    [script |-> script, op |-> op, doc |-> doc, started |-> started]

(***************************************************************************)
(* Inputs of Family Purge: the families of the project.                    *)
(***************************************************************************)
Fam(t, c, j, e, p) == [title |-> t, core |-> c, junk |-> j, editable |-> e, inplace |-> p]

FamilyKinds ==
    { Fam(<<"A">>, 1, {}, TRUE, FALSE),
      Fam(<<"A">>, 2, {"materials", "imports_images", "dimensions"}, TRUE, FALSE),
      Fam(<<" ", "A">>, 2, {"materials"}, TRUE, FALSE),
      Fam(<<"A", "/">>, 1, {"materials"}, TRUE, FALSE),
      Fam(<<>>, 1, {}, TRUE, FALSE),
      Fam(<<"A">>, 3, {"materials"}, TRUE, TRUE),
      Fam(<<"A">>, 3, {"materials"}, FALSE, FALSE) }

\* Many plain families of different sizes, to rank.
RankKinds == { Fam(<<"A">>, c, {}, TRUE, FALSE) : c \in 1..2 }

SeqsOf(S, n) == [1..n -> S]

\* "Top N" or "All" (a closed window acts as "Top N": process_all is False)
Choices == {"Top", "All"}

NoArgs == [panel_type |-> <<>>, frame_type |-> <<>>, width |-> <<0, 1>>, height |-> <<0, 1>>]
NoForm == [panel_type |-> <<>>, frame_type |-> <<>>, width |-> <<>>, height |-> <<>>]

\* the type a prototype family is opened with (famMan.CurrentType)
deleteType == [name |-> <<"prototype">>, values |-> <<>>]

\* no family document is open in the family editor
NoFamilyTemp == [base |-> "", current |-> deleteType, types |-> {}, frame |-> <<>>]

DoorIdle ==
    /\ doorm = <<>>
    /\ validTypes = <<>>
    /\ nestFams = <<>>
    /\ paraSet = {}
    /\ form = NoForm
    /\ args = NoArgs
    /\ family_temp = NoFamilyTemp
    /\ typeTx = "none"
    /\ loadTx = "none"
    /\ doorSaveLog = {}
    /\ tempFiles = {}
    /\ loadedFamilies = {}
    /\ out = <<>>

NoPoint == <<>>

P2FIdle ==
    /\ viewIsDrafting = TRUE
    /\ selection = <<>>
    /\ replace = FALSE
    /\ non_component_elements = <<>>
    /\ detail_components = <<>>
    /\ filtered_elements = <<>>
    /\ centroids = <<>>
    /\ placement_point = NoPoint
    /\ t_fam = "none"
    /\ t_load = "none"
    /\ t_replace = "none"
    /\ copied = {}
    /\ new_instance = NoPoint
    /\ deletedElements = {}

PullIdle ==
    /\ tree = {}
    /\ tree0 = {}
    /\ folders = {}
    /\ walk = <<>>
    /\ files = {}

BackupIdle ==
    /\ sourceExists = FALSE
    /\ sourceEntries = {}
    /\ backupExists = FALSE
    /\ backupEntries = {}
    /\ listed = {}
    /\ files_to_move = <<>>
    /\ move_i = 1
    /\ printed = <<>>

ToolsIdle == P2FIdle /\ PullIdle /\ BackupIdle

BatchIdle ==
    /\ csvRows = <<>>
    /\ batch_i = 1
    /\ processed = <<>>
    /\ skipLog = <<>>

ReplaceIdle ==
    /\ symbolIsActive = TRUE
    /\ source_families = {}
    /\ detailItems = <<>>
    /\ instances_to_replace = <<>>
    /\ rep_i = 1
    /\ replaced_elements = {}
    /\ deletedIds = {}
    /\ sentToBack = {}
    /\ replaceTx = "none"
    /\ orderTx = "none"

PurgeIdle ==
    /\ attempted = <<>>
    /\ docIsModifiable = FALSE
    /\ loadCalls = {}
    /\ families = <<>>
    /\ choice = "closed"
    /\ cancelRequested = FALSE
    /\ pbscanCancelled = FALSE
    /\ pbCancelled = FALSE
    /\ loop_i = 1
    /\ rank_info = <<>>
    /\ worklist = <<>>
    /\ results = <<>>
    /\ famdoc = NoDoc
    /\ row = <<>>
    /\ cat = 1
    /\ editLog = {}
    /\ saveLog = {}
    /\ deleteLog = {}
    /\ reloadLog = {}
    /\ report = <<>>

InitPurge ==
    /\ script = "purge"
    /\ pc = "start"
    /\ mutations = {}
    /\ \/ /\ \E n \in 0..MaxFamilies : families \in SeqsOf(FamilyKinds, n)
          /\ choice \in Choices
          /\ hostMayFail = TRUE
          /\ docIsModifiable \in BOOLEAN
       \/ /\ families \in SeqsOf(RankKinds, RankFamilies)
          /\ choice = "Top"
          /\ hostMayFail = FALSE
          /\ docIsModifiable = FALSE
    /\ loadCalls = {}
    /\ attempted = <<>>
    /\ cancelRequested = FALSE
    /\ pbscanCancelled = FALSE
    /\ pbCancelled = FALSE
    /\ loop_i = 1
    /\ rank_info = <<>>
    /\ worklist = <<>>
    /\ results = <<>>
    /\ famdoc = NoDoc
    /\ row = <<>>
    /\ cat = 1
    /\ editLog = {}
    /\ saveLog = {}
    /\ deleteLog = {}
    /\ reloadLog = {}
    /\ report = <<>>
    /\ DoorIdle
    /\ BatchIdle
    /\ ReplaceIdle
    /\ ToolsIdle

(***************************************************************************)
(* Family Purge: the user's cancel requests.                               *)
(***************************************************************************)
ScanPcs == {"scan_top", "scan_opened"}
PurgePcs == {"purge_top", "purge_opened", "purge_cat", "post_size", "reload"}

\* _EscCancelFilter.FilterMessage: ESC while the filter is installed
PressEsc ==
    /\ script = "purge"
    /\ pc \in ScanPcs \cup {"after_scan"} \cup PurgePcs
    /\ ~cancelRequested
    /\ cancelRequested' = TRUE
    /\ UNCHANGED <<notPurge, reloadEnv, attempted, script, pc, mutations, hostMayFail, families, choice, pbscanCancelled,
                   pbCancelled, loop_i, rank_info, worklist, results, famdoc, row, cat,
                   editLog, saveLog, deleteLog, reloadLog, report>>

\* the Cancel button of the scan progress bar
ClickCancelScan ==
    /\ script = "purge"
    /\ pc \in ScanPcs
    /\ ~pbscanCancelled
    /\ pbscanCancelled' = TRUE
    /\ UNCHANGED <<notPurge, reloadEnv, attempted, script, pc, mutations, hostMayFail, families, choice, cancelRequested,
                   pbCancelled, loop_i, rank_info, worklist, results, famdoc, row, cat,
                   editLog, saveLog, deleteLog, reloadLog, report>>

\* the Cancel button of the purge progress bar
ClickCancelPurge ==
    /\ script = "purge"
    /\ pc \in PurgePcs
    /\ ~pbCancelled
    /\ pbCancelled' = TRUE
    /\ UNCHANGED <<notPurge, reloadEnv, attempted, script, pc, mutations, hostMayFail, families, choice, cancelRequested,
                   pbscanCancelled, loop_i, rank_info, worklist, results, famdoc, row, cat,
                   editLog, saveLog, deleteLog, reloadLog, report>>

(***************************************************************************)
(* Family Purge: the script.                                               *)
(***************************************************************************)
RankEntry(k, pre_kb, can_size) == [fam |-> k, pre_kb |-> pre_kb, can_size |-> can_size]

\* if not candidates: forms.alert(..., exitscript=True); else install the ESC
\* filter and start the scan
PurgeStart ==
    /\ script = "purge" /\ pc = "start"
    /\ pc' = IF candidates = <<>> THEN "done" ELSE "scan_top"
    /\ UNCHANGED <<notPurge, reloadEnv, attempted, script, mutations, hostMayFail, purgeVars>>

\* scan loop, lines 505-513 (and the except of 527-534 when EditFamily throws)
ScanTop ==
    /\ script = "purge" /\ pc = "scan_top"
    /\ IF loop_i > Len(candidates) \/ _scan_cancelled
       THEN /\ pc' = "after_scan"
            /\ UNCHANGED <<hostMayFail, famdoc, editLog, rank_info, loop_i>>
       ELSE \/ /\ famdoc' = EditFamily(candidates[loop_i])
               /\ editLog' = editLog \cup {<<"scan", candidates[loop_i]>>}
               /\ pc' = "scan_opened"
               /\ UNCHANGED <<hostMayFail, rank_info, loop_i>>
            \/ /\ hostMayFail
               /\ hostMayFail' = FALSE
               /\ rank_info' = Append(rank_info, RankEntry(candidates[loop_i], NoSize, TRUE))
               /\ loop_i' = loop_i + 1
               /\ pc' = "scan_top"
               /\ UNCHANGED <<famdoc, editLog>>
    /\ UNCHANGED <<notPurge, reloadEnv, attempted, script, mutations, families, choice, cancelRequested, pbscanCancelled,
                   pbCancelled, worklist, results, row, cat, saveLog, deleteLog,
                   reloadLog, report>>

\* scan loop, lines 514-534
ScanSize ==
    /\ script = "purge" /\ pc = "scan_opened"
    /\ LET fam == candidates[loop_i]
           pre_path == build_preserving_name_path(famdoc)
       IN  \/ /\ pre_path = <<>>
              /\ rank_info' = Append(rank_info, RankEntry(fam, NoSize, FALSE))
              /\ UNCHANGED <<hostMayFail, saveLog>>
           \/ /\ pre_path # <<>> /\ _scan_cancelled
              /\ rank_info' = Append(rank_info, RankEntry(fam, NoSize, TRUE))
              /\ UNCHANGED <<hostMayFail, saveLog>>
           \/ /\ pre_path # <<>> /\ ~_scan_cancelled
              /\ saveLog' = saveLog \cup {[fam |-> fam, name |-> pre_path]}
              /\ rank_info' = Append(rank_info,
                                  RankEntry(fam, file_size_kb(SerializedBytes(famdoc)), TRUE))
              /\ UNCHANGED hostMayFail
           \/ /\ pre_path # <<>> /\ ~_scan_cancelled
              /\ hostMayFail
              /\ hostMayFail' = FALSE
              /\ rank_info' = Append(rank_info, RankEntry(fam, NoSize, TRUE))
              /\ UNCHANGED saveLog
    /\ famdoc' = NoDoc
    /\ loop_i' = loop_i + 1
    /\ pc' = "scan_top"
    /\ UNCHANGED <<notPurge, reloadEnv, attempted, script, mutations, families, choice, cancelRequested, pbscanCancelled,
                   pbCancelled, worklist, results, row, cat, editLog, deleteLog,
                   reloadLog, report>>

\* lines 536-544
AfterScan ==
    /\ script = "purge" /\ pc = "after_scan"
    /\ IF cancelRequested
       THEN IF rank_info = <<>>
            THEN /\ pc' = "done"
                 /\ UNCHANGED <<rank_info, worklist>>
            ELSE /\ pc' = "purge_top"
                 /\ worklist' = Worklist(rank_info)
                 /\ UNCHANGED rank_info
       ELSE /\ rank_info' = Ranked(rank_info)
            /\ worklist' = Worklist(Ranked(rank_info))
            /\ pc' = "purge_top"
    /\ loop_i' = 1
    /\ UNCHANGED <<notPurge, reloadEnv, attempted, script, mutations, hostMayFail, families, choice, cancelRequested,
                   pbscanCancelled, pbCancelled, results, famdoc, row, cat, editLog,
                   saveLog, deleteLog, reloadLog, report>>

NewRow(e) ==
    [fam |-> e.fam, pre |-> IF e.pre_kb >= 0 THEN e.pre_kb ELSE NoSize, post |-> NoSize,
     saved |-> NoSize, deleted |-> 0, status |-> <<>>]

\* purge loop, lines 553-572 (and 615-628 when EditFamily throws)
PurgeTop ==
    /\ script = "purge" /\ pc = "purge_top"
    /\ IF loop_i > Len(worklist) \/ _is_cancelled
       THEN /\ pc' = "report"
            /\ UNCHANGED <<hostMayFail, famdoc, editLog, row, results, loop_i, attempted>>
       ELSE /\ attempted' = Append(attempted, worklist[loop_i].fam)
            /\ \/ /\ row' = NewRow(worklist[loop_i])
                  /\ famdoc' = EditFamily(worklist[loop_i].fam)
                  /\ editLog' = editLog \cup {<<"purge", worklist[loop_i].fam>>}
                  /\ pc' = "purge_opened"
                  /\ UNCHANGED <<hostMayFail, results, loop_i>>
               \/ /\ hostMayFail
                  /\ hostMayFail' = FALSE
                  /\ results' = Append(results,
                                   [NewRow(worklist[loop_i]) EXCEPT !.status = <<"ERROR">>])
                  /\ loop_i' = loop_i + 1
                  /\ pc' = "purge_top"
                  /\ UNCHANGED <<famdoc, editLog, row>>
    /\ cat' = 1
    /\ UNCHANGED <<notPurge, reloadEnv, script, mutations, families, choice, cancelRequested, pbscanCancelled,
                   pbCancelled, rank_info, worklist, saveLog, deleteLog, reloadLog, report>>

\* except/finally of the purge loop for a raised "Cancelled", lines 615-628
RowCancelled(r) == [r EXCEPT !.status = Append(r.status, "CANCELLED")]

\* purge loop, lines 574-578 up to the call of purge_family_api_only
PurgeOpened ==
    /\ script = "purge" /\ pc = "purge_opened"
    /\ IF _is_cancelled
       THEN /\ results' = Append(results, RowCancelled(row))
            /\ famdoc' = NoDoc
            /\ loop_i' = loop_i + 1
            /\ pc' = "purge_top"
       ELSE /\ pc' = "purge_cat"
            /\ UNCHANGED <<results, famdoc, loop_i>>
    /\ UNCHANGED <<notPurge, reloadEnv, attempted, script, mutations, hostMayFail, families, choice, cancelRequested,
                   pbscanCancelled, pbCancelled, rank_info, worklist, row, cat, editLog,
                   saveLog, deleteLog, reloadLog, report>>

\* delete_elements for the ids of one purge step: the elements left in the
\* document, the number deleted, whether the host refused (bulk or one by one)
DeleteOutcomes(fdoc, step) ==
    IF step \notin fdoc.junk \/ ~StepEnabled(step)
    THEN {[junk |-> fdoc.junk, deleted |-> 0, fault |-> FALSE, tx |-> FALSE]}
    ELSE {[junk |-> fdoc.junk \ {step}, deleted |-> 1, fault |-> FALSE, tx |-> TRUE],
          [junk |-> fdoc.junk \ {step}, deleted |-> 1, fault |-> TRUE, tx |-> TRUE],
          [junk |-> fdoc.junk, deleted |-> 0, fault |-> TRUE, tx |-> TRUE]}

\* The next step of purge_family_api_only, from step c on, that finds ids to
\* delete (a step that finds none returns 0 and changes nothing)
RECURSIVE NextStep(_, _)
NextStep(fdoc, c) ==
    IF c > Len(PurgeSteps) THEN c
    ELSE IF PurgeSteps[c] \in fdoc.junk /\ StepEnabled(PurgeSteps[c]) THEN c
    ELSE NextStep(fdoc, c + 1)

\* purge_family_api_only: the cancel check before a step, then the steps up to
\* and including the next one that deletes
PurgeCat ==
    /\ script = "purge" /\ pc = "purge_cat"
    /\ IF _is_cancelled \/ NextStep(famdoc, cat) > Len(PurgeSteps)
       THEN /\ pc' = "post_size"
            /\ UNCHANGED <<hostMayFail, famdoc, row, cat, deleteLog, mutations>>
       ELSE \E o \in DeleteOutcomes(famdoc, PurgeSteps[NextStep(famdoc, cat)]) :
               /\ o.fault => hostMayFail
               /\ hostMayFail' = (hostMayFail /\ ~o.fault)
               /\ famdoc' = [famdoc EXCEPT !.junk = o.junk]
               /\ row' = [row EXCEPT !.deleted = @ + o.deleted]
               /\ deleteLog' = IF o.deleted > 0 THEN deleteLog \cup {famdoc.fam} ELSE deleteLog
               /\ mutations' = IF o.tx THEN mutations \cup {Mutation("Delete", "family", TRUE)}
                                ELSE mutations
               /\ cat' = NextStep(famdoc, cat) + 1
               /\ pc' = "purge_cat"
    /\ UNCHANGED <<notPurge, reloadEnv, attempted, script, families, choice, cancelRequested, pbscanCancelled,
                   pbCancelled, loop_i, rank_info, worklist, results, editLog, saveLog,
                   reloadLog, report>>

\* row["Saved (KB)"] = max(0, pre - post) when both are known
WithPost(r, post_kb) ==
    [r EXCEPT !.post = post_kb,
              !.saved = IF r.pre # NoSize /\ post_kb # NoSize
                        THEN Max(0, r.pre - post_kb) ELSE NoSize]

Note(r, text) == [r EXCEPT !.status = Append(r.status, text)]

\* purge loop, lines 581-603
PostSize ==
    /\ script = "purge" /\ pc = "post_size"
    /\ IF _is_cancelled
       THEN /\ results' = Append(results, RowCancelled(row))
            /\ famdoc' = NoDoc
            /\ loop_i' = loop_i + 1
            /\ pc' = "purge_top"
            /\ UNCHANGED <<hostMayFail, row, saveLog>>
       ELSE /\ LET can_size == worklist[loop_i].can_size
                   post_path == build_preserving_name_path(famdoc)
               IN  \/ /\ can_size /\ post_path # <<>>
                      /\ saveLog' = saveLog \cup {[fam |-> famdoc.fam, name |-> post_path]}
                      /\ row' = WithPost(row, file_size_kb(SerializedBytes(famdoc)))
                      /\ UNCHANGED hostMayFail
                   \/ /\ can_size /\ post_path # <<>>
                      /\ hostMayFail
                      /\ hostMayFail' = FALSE
                      /\ row' = WithPost(Note(row, "post-size unknown"), NoSize)
                      /\ UNCHANGED saveLog
                   \/ /\ ~(can_size /\ post_path # <<>>)
                      /\ row' = WithPost(Note(row, "size-scan skipped (illegal chars)"), NoSize)
                      /\ UNCHANGED <<hostMayFail, saveLog>>
            /\ pc' = "reload"
            /\ UNCHANGED <<results, famdoc, loop_i>>
    /\ UNCHANGED <<notPurge, reloadEnv, attempted, script, mutations, families, choice, cancelRequested, pbscanCancelled,
                   pbCancelled, rank_info, worklist, cat, editLog, deleteLog, reloadLog,
                   report>>

\* a reload that does not look at doc.IsModifiable
ReloadAlways(isModifiable) == TRUE

\* line 610: no LoadFamily while the project has an open transaction
ReloadAllowed(isModifiable) == ~isModifiable

\* purge loop, lines 605-628
Reload ==
    /\ script = "purge" /\ pc = "reload"
    /\ IF _is_cancelled
       THEN /\ results' = Append(results, RowCancelled(row))
            /\ UNCHANGED <<hostMayFail, families, reloadLog, loadCalls>>
       ELSE IF ~ReloadAllowed(docIsModifiable)
       THEN /\ results' = Append(results, Note(row, "ERROR"))
            /\ UNCHANGED <<hostMayFail, families, reloadLog, loadCalls>>
       ELSE /\ loadCalls' = loadCalls \cup
                   {[fam |-> famdoc.fam, isModifiable |-> docIsModifiable]}
            /\ \/ /\ hostMayFail     \* LoadFamily raises
                  /\ hostMayFail' = FALSE
                  /\ results' = Append(results, Note(row, "ERROR"))
                  /\ UNCHANGED <<families, reloadLog>>
               \/ /\ families' = [families EXCEPT ![famdoc.fam].junk = famdoc.junk]
                  /\ reloadLog' = reloadLog \cup {famdoc.fam}
                  /\ results' = Append(results, Note(row, "Purged & Reloaded"))
                  /\ UNCHANGED hostMayFail
    /\ famdoc' = NoDoc
    /\ loop_i' = loop_i + 1
    /\ pc' = "purge_top"
    /\ UNCHANGED <<notPurge, docIsModifiable, attempted, script, mutations, choice, cancelRequested, pbscanCancelled,
                   pbCancelled, rank_info, worklist, row, cat, editLog, saveLog, deleteLog,
                   report>>

\* results_sorted: by (Saved or 0, Pre or 0), largest first, stable
ReportKeyGE(a, b) ==
    LET sa == Max(0, a.saved)  sb == Max(0, b.saved)
        pa == Max(0, a.pre)    pb == Max(0, b.pre)
    IN  sa > sb \/ (sa = sb /\ pa >= pb)

RECURSIVE InsertRow(_, _)
InsertRow(sorted, r) ==
    IF sorted = <<>> THEN <<r>>
    ELSE IF ReportKeyGE(Head(sorted), r)
         THEN <<Head(sorted)>> \o InsertRow(Tail(sorted), r)
         ELSE <<r>> \o sorted

\* a report of the rows that saved something only
RowsWithSavings(rs) == SelectSeq(rs, LAMBDA r : r.saved > 0)

RECURSIVE results_sorted(_)
results_sorted(rs) ==
    IF rs = <<>> THEN <<>>
    ELSE InsertRow(results_sorted(SubSeq(rs, 1, Len(rs) - 1)), rs[Len(rs)])

\* lines 630-699: the table and the CSV
Report ==
    /\ script = "purge" /\ pc = "report"
    /\ report' = results_sorted(results)
    /\ pc' = "done"
    /\ UNCHANGED <<notPurge, reloadEnv, attempted, script, mutations, hostMayFail, families, choice, cancelRequested,
                   pbscanCancelled, pbCancelled, loop_i, rank_info, worklist, results,
                   famdoc, row, cat, editLog, saveLog, deleteLog, reloadLog>>

NextPurge ==
    \/ PurgeStart \/ ScanTop \/ ScanSize \/ AfterScan \/ PurgeTop \/ PurgeOpened
    \/ PurgeCat \/ PostSize \/ Reload \/ Report
    \/ PressEsc \/ ClickCancelScan \/ ClickCancelPurge

(***************************************************************************)
(* Door Configurator: texts, numbers and the table of config.py.           *)
(***************************************************************************)
LowerCase == <<"a","b","c","d","e","f","g","h","i","j","k","l","m",
               "n","o","p","q","r","s","t","u","v","w","x","y","z">>
UpperCase == <<"A","B","C","D","E","F","G","H","I","J","K","L","M",
               "N","O","P","Q","R","S","T","U","V","W","X","Y","Z">>

UpperChar(c) ==
    IF \E k \in 1..Len(LowerCase) : LowerCase[k] = c
    THEN UpperCase[CHOOSE k \in 1..Len(LowerCase) : LowerCase[k] = c]
    ELSE c

\* str.upper()
Upper(t) == [k \in 1..Len(t) |-> UpperChar(t[k])]

Digits == <<"0","1","2","3","4","5","6","7","8","9">>
IsDigit(c) == \E k \in 1..Len(Digits) : Digits[k] = c
DigitValue(c) == (CHOOSE k \in 1..Len(Digits) : Digits[k] = c) - 1

RECURSIVE DigitsValue(_)
DigitsValue(t) ==
    IF t = <<>> THEN 0
    ELSE 10 * DigitsValue(SubSeq(t, 1, Len(t) - 1)) + DigitValue(t[Len(t)])

\* a conversion that takes the digits of any text and never fails
ParseFloatLenient(t) ==
    [ok |-> TRUE, value |-> DigitsValue(SelectSeq(Strip(t), IsDigit))]

\* float(text): a ValueError for a text that is no number
ParseFloat(t) ==
    LET u == Strip(t) IN
    IF u # <<>> /\ \A k \in 1..Len(u) : IsDigit(u[k])
    THEN [ok |-> TRUE, value |-> DigitsValue(u)]
    ELSE [ok |-> FALSE, value |-> 0]

RECURSIVE GCD(_, _)
GCD(a, b) == IF b = 0 THEN a ELSE GCD(b, a % b)

\* a quotient as a fraction in lowest terms, <<numerator, denominator>>
Quotient(a, b) == LET g == GCD(a, b) IN <<a \div g, b \div g>>

\* a length in inches taken as the host's internal unit without conversion
ToFeetUnconverted(inches) == Quotient(inches, 1)

\* lines 71-72: inches to the host's internal unit, feet
ToFeet(inches) == Quotient(inches, 12)

\* int(x * 12) of line 107
IntTimes12(x) == (x[1] * 12) \div x[2]

typeName(width, height) == <<IntTimes12(width), "x", IntTimes12(height)>>

family_name(panel_type, frame_type) ==
    <<"08-Door_">> \o panel_type \o <<"_">> \o frame_type \o <<"_SingleFlush_HOK_I">>

pwGU == "318d67dd-1f5f-43fb-a3d0-32ac31f1babb"
phGU == "3e7f226e-bc78-407c-982a-d45a405cd2a9"
pnGU == "8e89f65d-3ed9-45c8-9808-8c315dedadce"
pfGU == "b6930f0e-c0f5-432b-80ee-6c649f876cae"

Primative02 == <<"DoorConfigPrimative02", "_SingleSwing_HOK_I">>
Sidelite01 == <<"DoorConfigPrimativeSidelite01", "_SingleSwing_HOK_I">>
SingleSliding02 == <<"DoorConfigPrimativeSingleSliding02", "_SingleSliding_HOK_I">>
Double01 == <<"DoorConfigPrimativeDouble01", "_DoubleSwing_HOK_I">>

FRAME_TO_PRIMITIVE_MAPPING ==
    (<<"S","0","1">> :> Primative02) @@ (<<"S","0","2">> :> Primative02) @@
    (<<"S","0","3">> :> Primative02) @@
    (<<"D","0","3","A">> :> Sidelite01) @@ (<<"D","0","3","B">> :> Sidelite01) @@
    (<<"D","0","3","C">> :> Sidelite01) @@ (<<"D","0","4","A">> :> Sidelite01) @@
    (<<"D","0","4","B">> :> Sidelite01) @@ (<<"D","0","4","C">> :> Sidelite01) @@
    (<<"D","0","5","A">> :> Sidelite01) @@ (<<"D","0","5","B">> :> Sidelite01) @@
    (<<"D","0","5","C">> :> Sidelite01) @@ (<<"D","0","6","A">> :> Sidelite01) @@
    (<<"D","0","6","B">> :> Sidelite01) @@ (<<"D","0","6","C">> :> Sidelite01) @@
    (<<"D","0","7","A">> :> Sidelite01) @@ (<<"D","0","7","B">> :> Sidelite01) @@
    (<<"D","0","7","C">> :> Sidelite01) @@
    (<<"S","2","1">> :> Sidelite01) @@ (<<"S","2","2">> :> Sidelite01) @@
    (<<"S","2","3">> :> Sidelite01) @@
    (<<"D","S","1">> :> SingleSliding02) @@
    (<<"D","0","2">> :> Double01)

(***************************************************************************)
(* Door Configurator: inputs.                                              *)
(***************************************************************************)
SelectionKinds == {<<>>, <<"door">>}
ValidTypesKinds == {<<>>, <<"DoorConfigPrimative02">>,
                    <<"DoorConfigPrimativeDouble01", "DoorConfigPrimative02">>}
NestFamsKinds == {<<<<"F">>, <<"S","0","1">>, <<"H","W">>>>,
                  <<<<"F">>, <<"S","0","1">>>>,
                  <<<<"H","W">>>>}
ParaSetKinds == {{pwGU, phGU, pnGU, pfGU}, {pwGU, phGU}, {}}
PanelTexts == {<<"f">>, <<"G">>}
FrameTexts == {<<"s","0","1">>, <<"D","0","2">>, <<"X","9","9">>}
WidthTexts == {<<"3","6">>, <<"3","x">>}
HeightTexts == {<<"8","4">>, <<"8","0">>, <<>>}

InitDoor ==
    /\ script = "door"
    /\ pc = "start"
    /\ mutations = {}
    /\ hostMayFail = TRUE
    /\ doorm \in SelectionKinds
    /\ validTypes \in ValidTypesKinds
    /\ nestFams \in NestFamsKinds
    /\ paraSet \in ParaSetKinds
    /\ form \in [panel_type : PanelTexts, frame_type : FrameTexts,
                 width : WidthTexts, height : HeightTexts]
    /\ args = NoArgs
    /\ family_temp = NoFamilyTemp
    /\ typeTx = "none"
    /\ loadTx = "none"
    /\ doorSaveLog = {}
    /\ tempFiles = {}
    /\ loadedFamilies = {}
    /\ out = <<>>
    /\ PurgeIdle
    /\ BatchIdle
    /\ ReplaceIdle
    /\ ToolsIdle

(***************************************************************************)
(* Door Configurator: the script.                                          *)
(***************************************************************************)
doorConst == <<doorm, validTypes, nestFams, paraSet, form>>

\* lines 21-25: the prototype door is the first selected element
DoorSelect ==
    /\ script = "door" /\ pc = "start"
    /\ pc' = IF doorm = <<>> THEN "crashed" ELSE "form"
    /\ UNCHANGED <<toolVars, batchVars, replaceVars, script, mutations, hostMayFail, purgeVars, doorVars>>

\* main, lines 54-72
DoorForm ==
    /\ script = "door" /\ pc = "form"
    /\ LET w == ParseFloat(Upper(form.width))
           h == ParseFloat(Upper(form.height))
       IN IF w.ok /\ h.ok
          THEN /\ args' = [panel_type |-> Upper(form.panel_type),
                           frame_type |-> Upper(form.frame_type),
                           width |-> ToFeet(w.value),
                           height |-> ToFeet(h.value)]
               /\ pc' = "edit"
          ELSE /\ pc' = "crashed"
               /\ UNCHANGED args
    /\ UNCHANGED <<toolVars, batchVars, replaceVars, script, mutations, hostMayFail, purgeVars, doorConst, family_temp,
                   typeTx, loadTx, doorSaveLog, tempFiles, loadedFamilies, out>>

\* save_as_new_family, lines 91-105
DoorEdit ==
    /\ script = "door" /\ pc = "edit"
    /\ IF validTypes = <<>>
       THEN /\ pc' = "crashed"
            /\ UNCHANGED <<family_temp, hostMayFail>>
       ELSE \/ /\ family_temp' = [base |-> validTypes[1], current |-> deleteType,
                                  types |-> {deleteType}, frame |-> <<"default">>]
               /\ pc' = "maketype"
               /\ UNCHANGED hostMayFail
            \/ /\ hostMayFail
               /\ hostMayFail' = FALSE
               /\ pc' = "crashed"
               /\ UNCHANGED family_temp
    /\ UNCHANGED <<toolVars, batchVars, replaceVars, script, mutations, purgeVars, doorConst, args,
                   typeTx, loadTx, doorSaveLog, tempFiles, loadedFamilies, out>>

\* lines 132-137
NestedNamed(name) == \E k \in 1..Len(nestFams) : nestFams[k] = name
BamId == IF NestedNamed(args.panel_type) THEN args.panel_type ELSE <<>>
FamId == IF NestedNamed(args.frame_type) /\ args.frame_type # args.panel_type
         THEN args.frame_type ELSE <<>>
FlamId == IF \E k \in 1..Len(nestFams) :
                nestFams[k] # args.panel_type /\ nestFams[k] # args.frame_type
          THEN nestFams[CHOOSE k \in 1..Len(nestFams) :
                    /\ nestFams[k] # args.panel_type /\ nestFams[k] # args.frame_type
                    /\ \A j \in (k+1)..Len(nestFams) :
                          nestFams[j] = args.panel_type \/ nestFams[j] = args.frame_type]
          ELSE <<>>

\* lines 143-168: an attribute of None is read
ParamLoopRaises ==
    \/ pnGU \in paraSet /\ BamId = <<>>
    \/ pfGU \in paraSet /\ FamId = <<>>
    \/ paraSet # {} /\ FlamId = <<>>

\* famMan.Set of lines 149-164
SetValue(g) ==
    CASE g = pwGU -> args.width
      [] g = phGU -> args.height
      [] g = pnGU -> BamId
      [] g = pfGU -> FamId

typeMake == [name |-> typeName(args.width, args.height),
             values |-> [g \in paraSet |-> SetValue(g)]]

TypeMutations ==
    {Mutation("NewType", "family_temp", TRUE),
     Mutation("DeleteCurrentType", "family_temp", TRUE)}
    \cup {Mutation("Set", "family_temp", TRUE) : g \in paraSet}

\* lines 110-177: transaction 'Make Type and set Values'
DoorMakeType ==
    /\ script = "door" /\ pc = "maketype"
    /\ \/ /\ ~ParamLoopRaises
          /\ family_temp' = [family_temp EXCEPT
                 !.types = {typeMake},
                 !.current = typeMake,
                 !.frame = IF pfGU \in paraSet THEN FamId ELSE @]
          /\ mutations' = mutations \cup TypeMutations
          /\ typeTx' = "committed"
          /\ out' = out
          /\ UNCHANGED hostMayFail
       \/ /\ ParamLoopRaises
          /\ typeTx' = "rolledback"
          /\ mutations' = mutations \cup {Mutation("NewType", "family_temp", TRUE)}
          /\ out' = Append(out, "Error")
          /\ UNCHANGED <<family_temp, hostMayFail>>
       \/ /\ hostMayFail                       \* NewType raises
          /\ hostMayFail' = FALSE
          /\ typeTx' = "rolledback"
          /\ out' = Append(out, "Error")
          /\ UNCHANGED <<family_temp, mutations>>
       \/ /\ hostMayFail                       \* NewType returns nothing
          /\ hostMayFail' = FALSE
          /\ typeTx' = "disposed"
          /\ out' = out
          /\ UNCHANGED <<family_temp, mutations>>
    /\ pc' = "saveas"
    /\ UNCHANGED <<toolVars, batchVars, replaceVars, script, purgeVars, doorConst, args,
                   loadTx, doorSaveLog, tempFiles, loadedFamilies>>

SavedFamily ==
    [name |-> family_name(args.panel_type, args.frame_type),
     base |-> family_temp.base, types |-> family_temp.types, frame |-> family_temp.frame]

\* line 182
DoorSaveAs ==
    /\ script = "door" /\ pc = "saveas"
    /\ \/ /\ doorSaveLog' = doorSaveLog \cup {SavedFamily}
          /\ tempFiles' = tempFiles \cup {SavedFamily.name}
          /\ pc' = "load"
          /\ UNCHANGED hostMayFail
       \/ /\ hostMayFail
          /\ hostMayFail' = FALSE
          /\ pc' = "crashed"
          /\ UNCHANGED <<doorSaveLog, tempFiles>>
    /\ UNCHANGED <<toolVars, batchVars, replaceVars, script, mutations, purgeVars, doorConst, args, family_temp,
                   typeTx, loadTx, loadedFamilies, out>>

\* lines 188-195 and, when the family did not load, line 84
DoorLoad ==
    /\ script = "door" /\ pc = "load"
    /\ mutations' = mutations \cup {Mutation("LoadFamily", "doc", TRUE)}
    /\ \/ /\ loadedFamilies' = loadedFamilies \cup {SavedFamily}
          /\ loadTx' = "committed"
          /\ pc' = "cleanup"
          /\ UNCHANGED <<hostMayFail, out>>
       \/ /\ hostMayFail
          /\ hostMayFail' = FALSE
          /\ loadTx' = "disposed"
          /\ out' = out \o <<"Failed to load family.", "finished">>
          /\ pc' = "done"
          /\ UNCHANGED loadedFamilies
    /\ UNCHANGED <<toolVars, batchVars, replaceVars, script, purgeVars, doorConst, args, family_temp,
                   typeTx, doorSaveLog, tempFiles>>

\* lines 196-200 and line 84; os.rmdir raises when the host made no Backup folder
DoorCleanup ==
    /\ script = "door" /\ pc = "cleanup"
    /\ tempFiles' = tempFiles \ {SavedFamily.name}
    /\ \/ /\ out' = Append(out, "finished")
          /\ pc' = "done"
          /\ UNCHANGED hostMayFail
       \/ /\ hostMayFail
          /\ hostMayFail' = FALSE
          /\ pc' = "crashed"
          /\ UNCHANGED out
    /\ UNCHANGED <<toolVars, batchVars, replaceVars, script, mutations, purgeVars, doorConst, args, family_temp,
                   typeTx, loadTx, doorSaveLog, loadedFamilies>>

NextDoor ==
    \/ DoorSelect \/ DoorForm \/ DoorEdit \/ DoorMakeType \/ DoorSaveAs
    \/ DoorLoad \/ DoorCleanup

(***************************************************************************)
(* Door Configurator: batch ingestion of the CSV file.  The repository     *)
(* declares the file (config.py, CSV_FILE_PATH) and holds the per-row      *)
(* conversion (main); the loop over the rows is not in the sources and is  *)
(* taken from the specification.                                           *)
(***************************************************************************)
MaxRows == 3

RowKinds == {<<<<"f">>, <<"s","0","1">>, <<"3","6">>, <<"8","4">>>>,
             <<<<"G">>, <<"D","0","2">>, <<"3","0">>, <<"8","0">>>>,
             <<<<"f">>, <<"s","0","1">>, <<"3","x">>, <<"8","4">>>>,
             <<<<"f">>, <<"s","0","1">>>>,
             <<>>}

\* a reader that hands out the rows last to first
RowAtReversed(k) == csvRows[Len(csvRows) + 1 - k]

\* the reader hands out the rows in file order
RowAt(k) == csvRows[k]

\* lines 59-72 of main applied to the fields of one row
RowConfig(r) ==
    [family_name |-> family_name(Upper(r[1]), Upper(r[2])),
     width |-> ToFeet(ParseFloat(Upper(r[3])).value),
     height |-> ToFeet(ParseFloat(Upper(r[4])).value)]

\* a row main can convert: four fields, width and height numbers
RowConverts(r) ==
    /\ Len(r) = 4
    /\ ParseFloat(Upper(r[3])).ok
    /\ ParseFloat(Upper(r[4])).ok

InitBatch ==
    /\ script = "batch"
    /\ pc = "row"
    /\ mutations = {}
    /\ hostMayFail = FALSE
    /\ \E n \in 0..MaxRows : csvRows \in SeqsOf(RowKinds, n)
    /\ batch_i = 1
    /\ processed = <<>>
    /\ skipLog = <<>>
    /\ PurgeIdle
    /\ DoorIdle
    /\ ReplaceIdle
    /\ ToolsIdle

\* one row: skipped with a message when malformed or empty, else handed to
\* the generator
BatchRow ==
    /\ script = "batch" /\ pc = "row"
    /\ batch_i <= Len(csvRows)
    /\ IF RowConverts(RowAt(batch_i))
       THEN /\ processed' = Append(processed, [row |-> batch_i] @@ RowConfig(RowAt(batch_i)))
            /\ UNCHANGED skipLog
       ELSE /\ skipLog' = Append(skipLog, batch_i)
            /\ UNCHANGED processed
    /\ batch_i' = batch_i + 1
    /\ UNCHANGED <<toolVars, script, pc, mutations, hostMayFail, csvRows,
                   purgeVars, doorVars, replaceVars>>

BatchEnd ==
    /\ script = "batch" /\ pc = "row"
    /\ batch_i > Len(csvRows)
    /\ pc' = "done"
    /\ UNCHANGED <<toolVars, script, mutations, hostMayFail, purgeVars, doorVars, batchVars,
                   replaceVars>>

NextBatch == BatchRow \/ BatchEnd

(***************************************************************************)
(* Replace Family.                                                         *)
(***************************************************************************)
MaxInstances == 2

LowerChar(c) ==
    IF \E k \in 1..Len(UpperCase) : UpperCase[k] = c
    THEN LowerCase[CHOOSE k \in 1..Len(UpperCase) : UpperCase[k] = c]
    ELSE c

\* str.lower()
Lower(t) == [k \in 1..Len(t) |-> LowerChar(t[k])]

\* lines 57 and 142: s.strip().lower()
Normalized(name) == Lower(Strip(name))

source_families_normalized == {Normalized(s) : s \in source_families}

DraftingViewTypes == {"Detail", "DraftingView"}

ItemKinds == {[family |-> <<"A">>, view |-> "Detail", bbox |-> TRUE],
              [family |-> <<" ","a">>, view |-> "DraftingView", bbox |-> TRUE],
              [family |-> <<"A">>, view |-> "FloorPlan", bbox |-> TRUE],
              [family |-> <<"A">>, view |-> "Detail", bbox |-> FALSE],
              [family |-> <<"B">>, view |-> "Detail", bbox |-> TRUE]}

\* the instances of the project with their element ids
WithIds(kinds, ascending) ==
    [k \in 1..Len(kinds) |->
        [id |-> IF ascending THEN k ELSE Len(kinds) + 1 - k] @@ kinds[k]]

\* lines 125-145
Matching == SelectSeq(detailItems,
                LAMBDA inst : Normalized(inst.family) \in source_families_normalized)

RECURSIVE SortById(_)
SortById(s) ==
    IF s = <<>> THEN <<>>
    ELSE LET k == CHOOSE k \in 1..Len(s) : \A j \in 1..Len(s) : s[k].id <= s[j].id
         IN <<s[k]>> \o SortById(SubSeq(s, 1, k - 1) \o SubSeq(s, k + 1, Len(s)))

InitReplace ==
    /\ script = "replace"
    /\ pc = "start"
    /\ mutations = {}
    /\ hostMayFail = TRUE
    /\ symbolIsActive \in BOOLEAN
    /\ source_families \in {{}, {<<"A">>}}
    /\ \E n \in 0..MaxInstances : \E kinds \in SeqsOf(ItemKinds, n) :
          \E ascending \in BOOLEAN : detailItems = WithIds(kinds, ascending)
    /\ instances_to_replace = <<>>
    /\ rep_i = 1
    /\ replaced_elements = {}
    /\ deletedIds = {}
    /\ sentToBack = {}
    /\ replaceTx = "none"
    /\ orderTx = "none"
    /\ PurgeIdle
    /\ DoorIdle
    /\ BatchIdle
    /\ ToolsIdle

replaceConst == <<symbolIsActive, source_families, detailItems>>

\* lines 51-52 and get_target_family_symbol, lines 104-111: the transaction
\* 'Activate Target Symbol' is made and never started, so the host refuses
\* Activate and the exception ends the script
ReplaceStart ==
    /\ script = "replace" /\ pc = "start"
    /\ IF source_families = {}
       THEN /\ pc' = "done"
            /\ UNCHANGED mutations
       ELSE IF ~symbolIsActive
       THEN /\ mutations' = mutations \cup {Mutation("Activate", "doc", FALSE)}
            /\ pc' = "crashed"
       ELSE /\ pc' = "collect"
            /\ UNCHANGED mutations
    /\ UNCHANGED <<toolVars, script, hostMayFail, purgeVars, doorVars, batchVars, replaceVars>>

\* lines 119-155 and 247-249
ReplaceCollect ==
    /\ script = "replace" /\ pc = "collect"
    /\ instances_to_replace' = SortById(Matching)
    /\ IF Matching = <<>>
       THEN pc' = "done" /\ UNCHANGED replaceTx
       ELSE pc' = "replace" /\ replaceTx' = "started"
    /\ UNCHANGED <<toolVars, script, mutations, hostMayFail, purgeVars, doorVars, batchVars,
                   replaceConst, rep_i, replaced_elements, deletedIds, sentToBack,
                   orderTx>>

\* the instance NewFamilyInstance makes in place of an original
new_inst(original_inst) == [of |-> original_inst.id, view |-> original_inst.view]

\* one pass of the loop of lines 250-312
ReplaceOne ==
    /\ script = "replace" /\ pc = "replace"
    /\ rep_i <= Len(instances_to_replace)
    /\ LET original_inst == instances_to_replace[rep_i] IN
       IF original_inst.view \notin DraftingViewTypes \/ ~original_inst.bbox
       THEN UNCHANGED <<mutations, hostMayFail, replaced_elements, deletedIds>>
       ELSE \/ /\ replaced_elements' =
                     replaced_elements \cup {<<original_inst.id, new_inst(original_inst)>>}
               /\ deletedIds' = deletedIds \cup {original_inst.id}
               /\ mutations' = mutations \cup {Mutation("NewFamilyInstance", "doc", TRUE),
                                               Mutation("Delete", "doc", TRUE)}
               /\ UNCHANGED hostMayFail
            \/ /\ hostMayFail                 \* NewFamilyInstance raises
               /\ hostMayFail' = FALSE
               /\ UNCHANGED <<mutations, replaced_elements, deletedIds>>
            \/ /\ hostMayFail                 \* doc.Delete raises
               /\ hostMayFail' = FALSE
               /\ replaced_elements' =
                     replaced_elements \cup {<<original_inst.id, new_inst(original_inst)>>}
               /\ mutations' = mutations \cup {Mutation("NewFamilyInstance", "doc", TRUE)}
               /\ UNCHANGED deletedIds
    /\ rep_i' = rep_i + 1
    /\ UNCHANGED <<toolVars, script, pc, purgeVars, doorVars, batchVars, replaceConst,
                   instances_to_replace, sentToBack, replaceTx, orderTx>>

\* line 314
ReplaceCommit ==
    /\ script = "replace" /\ pc = "replace"
    /\ rep_i > Len(instances_to_replace)
    /\ replaceTx' = "committed"
    /\ pc' = "order"
    /\ UNCHANGED <<toolVars, script, mutations, hostMayFail, purgeVars, doorVars, batchVars,
                   replaceConst, instances_to_replace, rep_i, replaced_elements,
                   deletedIds, sentToBack, orderTx>>

\* lines 321-335
ReplaceOrder ==
    /\ script = "replace" /\ pc = "order"
    /\ sentToBack' = {p[2] : p \in {q \in replaced_elements : q[2].view \in DraftingViewTypes}}
    /\ mutations' = IF replaced_elements = {} THEN mutations
                    ELSE mutations \cup {Mutation("SendToBack", "doc", TRUE)}
    /\ orderTx' = "committed"
    /\ pc' = "done"
    /\ UNCHANGED <<toolVars, script, hostMayFail, purgeVars, doorVars, batchVars,
                   replaceConst, instances_to_replace, rep_i, replaced_elements,
                   deletedIds, replaceTx>>

NextReplace ==
    \/ ReplaceStart \/ ReplaceCollect \/ ReplaceOne \/ ReplaceCommit \/ ReplaceOrder

(***************************************************************************)
(* Project to Family.  Coordinates are even whole numbers, so that half of *)
(* one is a whole number; an average is an exact fraction.                 *)
(***************************************************************************)
MaxSelection == 2

NoBox == [Min |-> <<>>, Max |-> <<>>]
Box(lo, hi) == [Min |-> lo, Max |-> hi]

ElementKinds ==
    {[kind |-> "Lines", box |-> Box(<<0, 0, 0>>, <<2, 2, 0>>)],
     [kind |-> "Lines", box |-> Box(<<2, 4, 0>>, <<6, 8, 0>>)],
     [kind |-> "FilledRegion", box |-> Box(<<4, 0, 0>>, <<8, 2, 0>>)],
     [kind |-> "Lines", box |-> NoBox],
     [kind |-> "DetailComponents", box |-> Box(<<0, 0, 0>>, <<2, 2, 0>>)],
     [kind |-> "Text", box |-> Box(<<0, 0, 0>>, <<2, 2, 0>>)]}

\* the selected elements with their element ids
Selected(kinds) == [k \in 1..Len(kinds) |-> [id |-> k] @@ kinds[k]]

\* the middle of a bounding box, (Min + Max) * 0.5
BoxCentre(b) == [i \in 1..3 |-> (b.Min[i] + b.Max[i]) \div 2]

\* line 219: el.get_BoundingBox(current_view).Min + el.get_BoundingBox(current_view).Max * 0.5
centroid(b) == [i \in 1..3 |-> b.Min[i] + (b.Max[i] \div 2)]

RECURSIVE SumOf(_, _)
SumOf(points, i) ==
    IF points = <<>> THEN 0 ELSE points[1][i] + SumOf(Tail(points), i)

\* lines 220-227
PlacementPoint(cs) ==
    IF cs # <<>> THEN [i \in 1..3 |-> Quotient(SumOf(cs, i), Len(cs))]
    ELSE [i \in 1..3 |-> Quotient(0, 1)]

\* lines 189-202
IsNonComponent(el) == el.kind \in {"FilledRegion", "Lines"}
IsDetailComponent(el) == el.kind = "DetailComponents"

IdsOf(els) == [k \in 1..Len(els) |-> els[k].id]

\* lines 205-207: the filled regions, then the lines
FilteredIds(sel) ==
    IdsOf(SelectSeq(sel, LAMBDA el : el.kind = "FilledRegion"))
        \o IdsOf(SelectSeq(sel, LAMBDA el : el.kind = "Lines"))

InitP2F ==
    /\ script = "p2f"
    /\ pc = "start"
    /\ mutations = {}
    /\ hostMayFail = TRUE
    /\ viewIsDrafting \in BOOLEAN
    /\ \E n \in 0..MaxSelection : \E kinds \in SeqsOf(ElementKinds, n) :
          selection = Selected(kinds)
    /\ replace \in BOOLEAN
    /\ non_component_elements = <<>>
    /\ detail_components = <<>>
    /\ filtered_elements = <<>>
    /\ centroids = <<>>
    /\ placement_point = NoPoint
    /\ t_fam = "none"
    /\ t_load = "none"
    /\ t_replace = "none"
    /\ copied = {}
    /\ new_instance = NoPoint
    /\ deletedElements = {}
    /\ PurgeIdle /\ DoorIdle /\ BatchIdle /\ ReplaceIdle /\ PullIdle /\ BackupIdle

p2fConst == <<viewIsDrafting, selection, replace>>
notP2F == <<purgeVars, doorVars, batchVars, replaceVars, pullVars, backupVars>>

\* lines 59-227
P2FStart ==
    /\ script = "p2f" /\ pc = "start"
    /\ IF ~viewIsDrafting
       THEN /\ pc' = "done"
            /\ UNCHANGED <<non_component_elements, detail_components, filtered_elements,
                           centroids, placement_point>>
       ELSE LET nce == SelectSeq(selection, IsNonComponent)
                cs == [k \in 1..Len(SelectSeq(nce, LAMBDA el : el.box # NoBox)) |->
                          centroid(SelectSeq(nce, LAMBDA el : el.box # NoBox)[k].box)]
            IN /\ non_component_elements' = nce
               /\ detail_components' = SelectSeq(selection, IsDetailComponent)
               /\ filtered_elements' = FilteredIds(selection)
               /\ IF FilteredIds(selection) = <<>>
                  THEN /\ pc' = "done"
                       /\ UNCHANGED <<centroids, placement_point>>
                  ELSE /\ centroids' = cs
                       /\ placement_point' = PlacementPoint(cs)
                       /\ pc' = "create"
    /\ UNCHANGED <<script, mutations, hostMayFail, notP2F, p2fConst, t_fam, t_load,
                   t_replace, copied, new_instance, deletedElements>>

\* lines 232-256: the name and the path are asked for, the family document
\* is made and its transaction started; avg_x is bound only when there are
\* centroids
P2FCreate ==
    /\ script = "p2f" /\ pc = "create"
    /\ \/ /\ pc' = "done"                     \* no name or no path given
          /\ UNCHANGED <<hostMayFail, t_fam>>
       \/ /\ hostMayFail                      \* NewFamilyDocument raises
          /\ hostMayFail' = FALSE
          /\ pc' = "done"
          /\ UNCHANGED t_fam
       \/ /\ t_fam' = "started"
          /\ pc' = IF centroids = <<>> THEN "crashed" ELSE "copy"
          /\ UNCHANGED hostMayFail
    /\ UNCHANGED <<script, mutations, notP2F, p2fConst, non_component_elements,
                   detail_components, filtered_elements, centroids, placement_point,
                   t_load, t_replace, copied, new_instance, deletedElements>>

\* lines 258-464
P2FCopy ==
    /\ script = "p2f" /\ pc = "copy"
    /\ \/ /\ copied' = {non_component_elements[k].id : k \in 1..Len(non_component_elements)}
          /\ mutations' = mutations
                \cup {Mutation("CopyElements", "family_doc", TRUE)}
                \cup (IF detail_components = <<>> THEN {}
                      ELSE {Mutation("NewFamilyInstance", "family_doc", TRUE)})
          /\ t_fam' = "committed"
          /\ pc' = "save"
          /\ UNCHANGED hostMayFail
       \/ /\ hostMayFail                      \* CopyElements raises
          /\ hostMayFail' = FALSE
          /\ t_fam' = "rolledback"
          /\ pc' = "done"
          /\ UNCHANGED <<copied, mutations>>
    /\ UNCHANGED <<script, notP2F, p2fConst, non_component_elements,
                   detail_components, filtered_elements, centroids, placement_point,
                   t_load, t_replace, new_instance, deletedElements>>

\* lines 469-479
P2FSave ==
    /\ script = "p2f" /\ pc = "save"
    /\ \/ /\ pc' = "load"
          /\ UNCHANGED hostMayFail
       \/ /\ hostMayFail                      \* SaveAs raises
          /\ hostMayFail' = FALSE
          /\ pc' = "done"
    /\ UNCHANGED <<script, mutations, notP2F, p2fVars>>

\* lines 485-521
P2FLoad ==
    /\ script = "p2f" /\ pc = "load"
    /\ t_load' = "committed"
    /\ \/ /\ \E active \in BOOLEAN :
                mutations' = mutations \cup {Mutation("LoadFamily", "doc", TRUE)}
                    \cup (IF active THEN {} ELSE {Mutation("Activate", "doc", TRUE)})
          /\ pc' = "replace"
          /\ UNCHANGED hostMayFail
       \/ /\ hostMayFail                      \* LoadFamily answers false
          /\ hostMayFail' = FALSE
          /\ pc' = "done"
          /\ UNCHANGED mutations
    /\ UNCHANGED <<script, notP2F, p2fConst, non_component_elements,
                   detail_components, filtered_elements, centroids, placement_point,
                   t_fam, t_replace, copied, new_instance, deletedElements>>

\* line 536-538
all_elements_to_delete == filtered_elements \o IdsOf(detail_components)

\* lines 523-554; forms.alert(exitscript=True) at line 545 leaves the script
\* by SystemExit, which the except clause of line 546 does not catch
P2FReplace ==
    /\ script = "p2f" /\ pc = "replace"
    /\ IF ~replace
       THEN /\ pc' = "done"
            /\ UNCHANGED <<mutations, hostMayFail, t_replace, new_instance, deletedElements>>
       ELSE \/ /\ new_instance' = placement_point
               /\ deletedElements' =
                     {all_elements_to_delete[k] : k \in 1..Len(all_elements_to_delete)}
               /\ mutations' = mutations \cup {Mutation("NewFamilyInstance", "doc", TRUE),
                                               Mutation("Delete", "doc", TRUE)}
               /\ t_replace' = "committed"
               /\ pc' = "done"
               /\ UNCHANGED hostMayFail
            \/ /\ hostMayFail                 \* NewFamilyInstance raises
               /\ hostMayFail' = FALSE
               /\ t_replace' = "rolledback"
               /\ pc' = "done"
               /\ UNCHANGED <<mutations, new_instance, deletedElements>>
            \/ /\ hostMayFail                 \* a Delete raises
               /\ hostMayFail' = FALSE
               /\ new_instance' = placement_point
               /\ \E n \in 0..(Len(all_elements_to_delete) - 1) :
                     deletedElements' = {all_elements_to_delete[k] : k \in 1..n}
               /\ mutations' = mutations \cup {Mutation("NewFamilyInstance", "doc", TRUE),
                                               Mutation("Delete", "doc", TRUE)}
               /\ t_replace' = "started"
               /\ pc' = "exited"
    /\ UNCHANGED <<script, notP2F, p2fConst, non_component_elements,
                   detail_components, filtered_elements, centroids, placement_point,
                   t_fam, t_load, copied>>

NextP2F == P2FStart \/ P2FCreate \/ P2FCopy \/ P2FSave \/ P2FLoad \/ P2FReplace

(***************************************************************************)
(* pullfromfolders.py: extract_files_to_parent.  A path is the sequence of *)
(* folder names below parent_folder; <<>> is parent_folder itself.         *)
(***************************************************************************)
MaxFiles == 3

\* os.path.splitext: the extension starts at the last dot that has a
\* character other than a dot before it
LastDot(name) ==
    LET dots == {k \in 1..Len(name) : name[k] = "." /\ \E j \in 1..(k - 1) : name[j] # "."}
    IN  IF dots = {} THEN 0 ELSE CHOOSE k \in dots : \A j \in dots : j <= k

splitext(name) ==
    IF LastDot(name) = 0 THEN <<name, <<>>>>
    ELSE <<SubSeq(name, 1, LastDot(name) - 1), SubSeq(name, LastDot(name), Len(name))>>

\* str(counter)
RECURSIVE CounterText(_)
CounterText(n) ==
    IF n < 10 THEN <<Digits[n + 1]>>
    ELSE CounterText(n \div 10) \o <<Digits[(n % 10) + 1]>>

\* line 16: "{}_{}{}".format(base, counter, ext)
Suffixed(name, counter) ==
    splitext(name)[1] \o <<"_">> \o CounterText(counter) \o splitext(name)[2]

\* os.path.exists of a name directly in parent_folder
ExistsInParent(name) ==
    \/ \E t \in tree : t.path = <<>> /\ t.name = name
    \/ <<name>> \in folders

\* a move that does not look at what is in parent_folder
SameName(name, counter) == name

\* lines 11-17: the name itself when it is free, else the first free
\* suffixed name, counting from counter
RECURSIVE FreeName(_, _)
FreeName(name, counter) ==
    IF ~ExistsInParent(name) THEN name
    ELSE IF ~ExistsInParent(Suffixed(name, counter)) THEN Suffixed(name, counter)
    ELSE FreeName(name, counter + 1)

IsPrefix(p, q) == Len(p) <= Len(q) /\ SubSeq(q, 1, Len(p)) = p

FileNames == {<<"a", ".", "t">>, <<"a", "_", "1", ".", "t">>, <<"b">>}
FolderPaths == {<<"d">>, <<"d", "e">>}
Places == {<<>>} \cup FolderPaths

File(p, n) == [path |-> p, name |-> n, id |-> <<p, n>>]

\* the folders with their listings in the order os.walk(topdown=False)
\* yields them; a listing is taken before any file is moved
Listing(root, t, fs) ==
    [root |-> root,
     files |-> {e.name : e \in {x \in t : x.path = root}},
     dirs |-> {f \in fs : Len(f) = Len(root) + 1 /\ IsPrefix(root, f)}]

InitPull ==
    /\ script = "pull"
    /\ pc = "walk"
    /\ mutations = {}
    /\ hostMayFail = FALSE
    /\ \E picked \in SUBSET (Places \X FileNames) :
          /\ Cardinality(picked) <= MaxFiles
          /\ tree = {File(x[1], x[2]) : x \in picked}
    /\ \E extra \in SUBSET {<<"b">>} :
          /\ (extra # {} => ~\E t \in tree : t.path = <<>> /\ t.name = <<"b">>)
          /\ folders = FolderPaths \cup extra
    /\ tree0 = tree
    /\ \E order \in {<< <<"d", "e">>, <<"d">>, <<"b">>, <<>> >>,
                     << <<"b">>, <<"d", "e">>, <<"d">>, <<>> >>} :
          walk = [k \in 1..Len(SelectSeq(order, LAMBDA f : f = <<>> \/ f \in folders)) |->
                     Listing(SelectSeq(order, LAMBDA f : f = <<>> \/ f \in folders)[k],
                             tree, folders)]
    /\ files = IF walk = <<>> THEN {} ELSE walk[1].files
    /\ PurgeIdle /\ DoorIdle /\ BatchIdle /\ ReplaceIdle /\ P2FIdle /\ BackupIdle

notPull == <<purgeVars, doorVars, batchVars, replaceVars, p2fVars, backupVars>>

\* shutil.move(file_path, new_path): what was at new_path is replaced
Moved(t, e, new_name) ==
    {x \in t : x # e /\ ~(x.path = <<>> /\ x.name = new_name)}
        \cup {[e EXCEPT !.path = <<>>, !.name = new_name]}

\* lines 6-18 for one file of the folder the walk is at
PullMove ==
    /\ script = "pull" /\ pc = "walk"
    /\ walk # <<>>
    /\ \E name \in files :
          LET e == CHOOSE x \in tree : x.path = walk[1].root /\ x.name = name
          IN  /\ tree' = Moved(tree, e, FreeName(name, 1))
              /\ files' = files \ {name}
    /\ UNCHANGED <<script, pc, mutations, hostMayFail, notPull, folders, walk, tree0>>

\* lines 20-24 for the folder the walk is at, then the next folder
PullRmtree ==
    /\ script = "pull" /\ pc = "walk"
    /\ walk # <<>> /\ files = {}
    /\ folders' = {f \in folders : ~\E d \in walk[1].dirs : IsPrefix(d, f)}
    /\ tree' = {t \in tree : ~\E d \in walk[1].dirs : IsPrefix(d, t.path)}
    /\ walk' = Tail(walk)
    /\ files' = IF Tail(walk) = <<>> THEN {} ELSE Tail(walk)[1].files
    /\ UNCHANGED <<script, pc, mutations, hostMayFail, notPull, tree0>>

PullEnd ==
    /\ script = "pull" /\ pc = "walk"
    /\ walk = <<>>
    /\ pc' = "done"
    /\ UNCHANGED <<script, mutations, hostMayFail, notPull, pullVars>>

NextPull == PullMove \/ PullRmtree \/ PullEnd

(***************************************************************************)
(* removebackups.py: move_files_with_extension.  An entry of a folder is a *)
(* record [name, id]; the id names the folder the entry was in before the  *)
(* call.                                                                   *)
(***************************************************************************)
MaxEntries == 3

\* line 4: the default of the parameter extension, '.0001.rvt'
extension == <<".", "0", "0", "0", "1", ".", "r", "v", "t">>

\* str.endswith
EndsWith(name, ext) ==
    /\ Len(ext) <= Len(name)
    /\ SubSeq(name, Len(name) - Len(ext) + 1, Len(name)) = ext

\* a listing that is not filtered
EveryFile(names) == names

\* line 18
FilesToMove(names) == {n \in names : EndsWith(n, extension)}

EntryNames ==
    {<<"a">> \o extension, <<"b">> \o extension,
     <<"a">> \o extension \o <<".", "b", "a", "k">>, <<"a", ".", "r", "v", "t">>}

Entry(folder, name) == [name |-> name, id |-> <<folder, name>>]

Orderings(S) ==
    {s \in [1..Cardinality(S) -> S] : \A j, k \in 1..Cardinality(S) : s[j] = s[k] => j = k}

InitBackup ==
    /\ script = "backup"
    /\ pc = "start"
    /\ mutations = {}
    /\ hostMayFail = FALSE
    /\ sourceExists \in BOOLEAN
    /\ \E names \in SUBSET EntryNames :
          /\ Cardinality(names) <= MaxEntries
          /\ (~sourceExists => names = {})
          /\ sourceEntries = {Entry("source", n) : n \in names}
    /\ backupExists \in BOOLEAN
    /\ \E names \in SUBSET {<<"a">> \o extension} :
          /\ (~backupExists => names = {})
          /\ backupEntries = {Entry("backup", n) : n \in names}
    /\ listed = {}
    /\ files_to_move = <<>>
    /\ move_i = 1
    /\ printed = <<>>
    /\ PurgeIdle /\ DoorIdle /\ BatchIdle /\ ReplaceIdle /\ P2FIdle /\ PullIdle

notBackup == <<purgeVars, doorVars, batchVars, replaceVars, p2fVars, pullVars>>

\* lines 6-18; os.listdir gives the names in an order of its own
BackupStart ==
    /\ script = "backup" /\ pc = "start"
    /\ IF ~sourceExists
       THEN /\ printed' = Append(printed, <<"does not exist">>)
            /\ pc' = "done"
            /\ UNCHANGED <<backupExists, listed, files_to_move>>
       ELSE /\ backupExists' = TRUE
            /\ listed' = {e.name : e \in sourceEntries}
            /\ files_to_move' \in Orderings(FilesToMove(listed'))
            /\ pc' = "move"
            /\ UNCHANGED printed
    /\ UNCHANGED <<script, mutations, hostMayFail, notBackup, sourceExists, sourceEntries,
                   backupEntries, move_i>>

\* lines 21-28 for one file: shutil.move succeeds, replacing a file of that
\* name in backup_folder, or raises and the except clause prints
BackupMove ==
    /\ script = "backup" /\ pc = "move"
    /\ move_i <= Len(files_to_move)
    /\ LET file == files_to_move[move_i]
           e == CHOOSE x \in sourceEntries : x.name = file
       IN  \/ /\ sourceEntries' = sourceEntries \ {e}
              /\ backupEntries' = {x \in backupEntries : x.name # file} \cup {e}
              /\ printed' = Append(printed, <<"Moved file", file>>)
           \/ /\ printed' = Append(printed, <<"Failed to move", file>>)
              /\ UNCHANGED <<sourceEntries, backupEntries>>
    /\ move_i' = move_i + 1
    /\ UNCHANGED <<script, pc, mutations, hostMayFail, notBackup, sourceExists, backupExists,
                   listed, files_to_move>>

BackupEnd ==
    /\ script = "backup" /\ pc = "move"
    /\ move_i > Len(files_to_move)
    /\ pc' = "done"
    /\ UNCHANGED <<script, mutations, hostMayFail, notBackup, backupVars>>

NextBackup == BackupStart \/ BackupMove \/ BackupEnd

Init == InitPurge \/ InitDoor \/ InitBatch \/ InitReplace \/ InitP2F \/ InitPull \/ InitBackup

Next == NextPurge \/ NextDoor \/ NextBatch \/ NextReplace \/ NextP2F \/ NextPull \/ NextBackup

Spec == Init /\ [][Next]_vars

(***************************************************************************)
(* Family Purge: properties.                                               *)
(***************************************************************************)
Rows == {results[k] : k \in 1..Len(results)}
NoCancelRequested == ~cancelRequested /\ ~pbscanCancelled /\ ~pbCancelled
PurgeLoopOver == script = "purge" /\ pc \in {"report", "done"}

C8_CancelStopsRun ==
    [][(cancelRequested \/ pbscanCancelled \/ pbCancelled)
         => (editLog' = editLog /\ deleteLog' = deleteLog /\ reloadLog' = reloadLog)]_vars

\* The size the scan measures for a family of the project (NoSize when its
\* title gives no file name)
PreKbOf(k) ==
    IF build_preserving_name_path(EditFamily(k)) = <<>> THEN NoSize
    ELSE file_size_kb(SerializedBytes(EditFamily(k)))

\* the size a candidate was ranked with, or the size it has when never scanned
RankedKb(k) ==
    IF \E e \in 1..Len(rank_info) : rank_info[e].fam = k
    THEN (CHOOSE v \in {rank_info[e].pre_kb : e \in {x \in 1..Len(rank_info) : rank_info[x].fam = k}} : TRUE)
    ELSE PreKbOf(k)

\* C9: with the choice Top N, the families gone through by the purge loop are
\* the largest candidates, largest first (unmeasured ones last): none left out
\* is larger than one taken, and all min(N, number of candidates) are taken
\* unless the run was cancelled.
C9_TopNLargestFirst ==
    (PurgeLoopOver /\ choice = "Top") =>
        LET taken == {r.fam : r \in Rows}
            cands == {candidates[k] : k \in 1..Len(candidates)}
        IN  /\ \A a, b \in 1..Len(results) : a < b => results[a].pre >= results[b].pre
            /\ \A r \in Rows : \A g \in cands \ taken : RankedKb(g) <= r.pre
            /\ NoCancelRequested =>
                   Len(results) = Min(n_default(Len(candidates)), Len(candidates))

BadTitle(t) == t = <<>> \/ _has_illegal_filename_chars(t)

\* C10: every SaveAs writes <temp dir>/<exact family title>.rfa, and a family
\* whose title is empty or has an illegal character is never saved and its
\* row has no pre, post or saved size.
C10_NoRename ==
    /\ \A s \in saveLog : s.name = families[s.fam].title
    /\ \A k \in 1..Len(families) :
          BadTitle(families[k].title) =>
             /\ \A s \in saveLog : s.fam # k
             /\ \A r \in Rows : r.fam = k =>
                    (r.pre = NoSize /\ r.post = NoSize /\ r.saved = NoSize)

(***************************************************************************)
(* Door Configurator: properties.                                          *)
(***************************************************************************)
NewTypes(fam) == {t \in fam.types : t # deleteType}

\* the number a text of digits stands for
InchesTyped(t) == DigitsValue(Upper(t))

\* C2: a family type the generator created has its width and its height
\* parameter equal to the width and the height typed in inches, divided by
\* twelve (value * 12 = inches).
C2_TypeSizeInFeet ==
    (script = "door" /\ typeTx = "committed") =>
        \A t \in NewTypes(family_temp) :
            /\ pwGU \in DOMAIN t.values =>
                  t.values[pwGU][1] * 12 = InchesTyped(form.width) * t.values[pwGU][2]
            /\ phGU \in DOMAIN t.values =>
                  t.values[phGU][1] * 12 = InchesTyped(form.height) * t.values[phGU][2]

\* a type 36x80 was committed with width 3 feet and height 20/3 feet, and the
\* family was loaded
C2_Witness ==
    /\ script = "door" /\ typeTx = "committed"
    /\ form.width = <<"3","6">> /\ form.height = <<"8","0">>
    /\ \E f \in loadedFamilies : \E t \in NewTypes(f) :
          /\ pwGU \in DOMAIN t.values /\ phGU \in DOMAIN t.values
          /\ t.values[pwGU] = <<3, 1>> /\ t.values[phGU] = <<20, 3>>

\* C3: for a frame code of FRAME_TO_PRIMITIVE_MAPPING, the family the
\* generator saves is built on the prototype the table names for that code.
C3_PrototypeFromTable ==
    \A s \in doorSaveLog :
        args.frame_type \in DOMAIN FRAME_TO_PRIMITIVE_MAPPING =>
            s.base = FRAME_TO_PRIMITIVE_MAPPING[args.frame_type][1]

\* C4: for a frame code that is absent from the table, or that matches no
\* nested family of the prototype, nothing is saved and nothing is loaded.
C4_UnknownFrameSkipped ==
    (script = "door" /\ pc \notin {"start", "form"}
       /\ (args.frame_type \notin DOMAIN FRAME_TO_PRIMITIVE_MAPPING
             \/ ~NestedNamed(args.frame_type))) =>
        (doorSaveLog = {} /\ loadedFamilies = {})

(***************************************************************************)
(* Batch ingestion: properties.                                            *)
(***************************************************************************)
\* a text that is a number: digits, possibly with blanks around them
IsNumberText(t) == Strip(t) # <<>> /\ \A k \in 1..Len(Strip(t)) : IsDigit(Strip(t)[k])

WellFormedRow(r) == Len(r) = 4 /\ IsNumberText(r[3]) /\ IsNumberText(r[4])

\* C5: the configurations are processed in the order of their rows: the k-th
\* generator run is for a later row than the run before it and has the
\* content of that row.
C5_RowOrder ==
    script = "batch" =>
        /\ \A j, k \in 1..Len(processed) : j < k => processed[j].row < processed[k].row
        /\ \A k \in 1..Len(processed) :
              /\ processed[k].row \in 1..Len(csvRows)
              /\ Len(csvRows[processed[k].row]) = 4
              /\ processed[k].family_name =
                    family_name(Upper(csvRows[processed[k].row][1]),
                                Upper(csvRows[processed[k].row][2]))
              /\ processed[k].width[1] * 12 =
                    InchesTyped(csvRows[processed[k].row][3]) * processed[k].width[2]

\* two different well-formed rows were processed, the first row first
C5_Witness ==
    /\ script = "batch" /\ pc = "done" /\ Len(processed) >= 2
    /\ processed[1].family_name # processed[2].family_name
    /\ processed[1].row = 1

C7_MutationsInTransaction == \A m \in mutations : m.started

(***************************************************************************)
(* Family Purge: reload, loadable families, report.                        *)
(***************************************************************************)
\* C11: LoadFamily is never called while the project document has an open
\* transaction, and the row of a family that reached the reload with one
\* open is an error row and the family is not reloaded.
C11_NoReloadInTransaction ==
    /\ \A c \in loadCalls : ~c.isModifiable
    /\ docIsModifiable =>
          /\ reloadLog = {}
          /\ \A r \in Rows : r.status[Len(r.status)] \in {"ERROR", "CANCELLED"}

\* a family was purged with a transaction open on the project and its row is
\* an error row
C11_Witness ==
    /\ script = "purge" /\ pc = "done" /\ docIsModifiable
    /\ \E r \in Rows : r.deleted > 0 /\ r.status[Len(r.status)] = "ERROR"
    /\ loadCalls = {}

Loadable(k) == families[k].editable /\ ~families[k].inplace

\* C12: a family that is in-place or not editable is never opened with
\* EditFamily (scan or purge phase), never purged, never saved and never
\* reloaded, and has no row in the results.
C12_OnlyLoadableFamilies ==
    /\ \A e \in editLog : Loadable(e[2])
    /\ \A k \in deleteLog \cup reloadLog : Loadable(k)
    /\ \A s \in saveLog : Loadable(s.fam)
    /\ \A c \in loadCalls : Loadable(c.fam)
    /\ \A r \in Rows : Loadable(r.fam)
    /\ (famdoc # NoDoc => Loadable(famdoc.fam))

\* a run over a project with an in-place family and a loadable one: the
\* loadable one was scanned, purged and reloaded
C12_Witness ==
    /\ script = "purge" /\ pc = "done"
    /\ \E k \in 1..Len(families) : families[k].inplace
    /\ \E k \in reloadLog : <<"scan", k>> \in editLog /\ <<"purge", k>> \in editLog

\* how often a row of family k stands in a list of rows
TimesIn(rs, k) == Cardinality({j \in 1..Len(rs) : rs[j].fam = k})

\* the purge loop is between two families
BetweenFamilies == script = "purge" /\ pc \in {"purge_top", "report", "done"}

\* C13: between two families and after the loop, the results hold one row
\* for each family the purge loop called EditFamily for, in that order, and
\* no other row; the printed table and the CSV hold the same rows.
C13_ReportRowsExactlyOnce ==
    /\ BetweenFamilies =>
          /\ Len(results) = Len(attempted)
          /\ \A j \in 1..Len(results) : results[j].fam = attempted[j]
          /\ \A k \in 1..Len(families) : TimesIn(results, k) <= 1
    /\ (script = "purge" /\ pc = "done" /\ candidates # <<>>) =>
          /\ Len(report) = Len(results)
          /\ \A r \in Rows : \E j \in 1..Len(report) : report[j] = r
          /\ \A k \in 1..Len(families) : TimesIn(report, k) = TimesIn(results, k)

\* a report with a reloaded, a cancelled and no further family
C13_Witness ==
    /\ script = "purge" /\ pc = "done" /\ Len(report) = 2
    /\ \E r \in Rows : r.status[Len(r.status)] = "Purged & Reloaded"
    /\ \E r \in Rows : r.status[Len(r.status)] = "CANCELLED"

(***************************************************************************)
(* Project to Family: properties.                                          *)
(***************************************************************************)
\* the selected lines and filled regions that have a bounding box
Measured == SelectSeq(selection, LAMBDA el : IsNonComponent(el) /\ el.box # NoBox)

\* C14: the new instance stands at the average of the bounding-box centres
\* (Min + Max) / 2 of the selected lines and filled regions: for each axis,
\* its coordinate times twice the number of elements is the sum of Min + Max.
C14_PlacedAtCentroid ==
    (script = "p2f" /\ new_instance # NoPoint /\ Measured # <<>>) =>
        \A i \in 1..3 :
            new_instance[i][1] * 2 * Len(Measured) =
                new_instance[i][2]
                    * SumOf([k \in 1..Len(Measured) |->
                                [j \in 1..3 |-> Measured[k].box.Min[j] + Measured[k].box.Max[j]]], i)

(***************************************************************************)
(* Replace Family: properties.                                             *)
(***************************************************************************)
Items == {detailItems[k] : k \in 1..Len(detailItems)}

\* the instance is of a selected source family, names compared without
\* case and without blanks around them
OfSourceFamily(inst) ==
    \E s \in source_families : Lower(Strip(inst.family)) = Lower(Strip(s))

Replaceable(inst) ==
    /\ OfSourceFamily(inst)
    /\ inst.view \in {"Detail", "DraftingView"}
    /\ inst.bbox

ReplacedIds == {p[1] : p \in replaced_elements}

\* C15: the instances replaced are exactly those of a selected source
\* family in a Detail or Drafting view (with a bounding box): no other
\* instance is deleted or given a replacement, the loop goes through them
\* in ascending element-id order, and when the script has ended and the
\* host refused no creation or deletion, every such instance has been
\* replaced and deleted.
C15_ReplacesExactlySelection ==
    script = "replace" =>
        /\ \A inst \in Items :
              (inst.id \in ReplacedIds \cup deletedIds) => Replaceable(inst)
        /\ ReplacedIds \cup deletedIds \subseteq {inst.id : inst \in Items}
        /\ \A j, k \in 1..Len(instances_to_replace) :
              j < k => instances_to_replace[j].id < instances_to_replace[k].id
        /\ ReplacedIds \cup deletedIds \subseteq
              {instances_to_replace[k].id : k \in 1..(rep_i - 1)}
        /\ (pc \in {"done", "crashed"} /\ hostMayFail /\ source_families # {}) =>
              \A inst \in Items :
                  Replaceable(inst) => inst.id \in ReplacedIds \cap deletedIds

(***************************************************************************)
(* pullfromfolders.py: properties.                                         *)
(***************************************************************************)
\* C16: no file is lost and none is overwritten: at every step each file of
\* the tree is still there, under a path and name of its own; when the call
\* returns every file is directly in parent_folder, under its own name or
\* that name with a suffix _<counter>, and no folder is left.
C16_NoFileLost ==
    script = "pull" =>
        /\ \A t0 \in tree0 : \E t \in tree : t.id = t0.id
        /\ Cardinality(tree) = Cardinality(tree0)
        /\ \A s, t \in tree : (s.path = t.path /\ s.name = t.name) => s = t
        /\ pc = "done" =>
              /\ \A t \in tree : t.path = <<>>
              /\ folders = {}
              /\ \A t \in tree :
                    \/ t.name = t.id[2]
                    \/ \E c \in 1..Cardinality(tree0) : t.name = Suffixed(t.id[2], c)

\* three files of one name, in the parent folder and two levels below it,
\* all ended in the parent folder under three names
C16_Witness ==
    /\ script = "pull" /\ pc = "done"
    /\ Cardinality(tree0) = 3
    /\ \A t0 \in tree0 : t0.name = <<"a", ".", "t">>
    /\ Cardinality({t.name : t \in tree}) = 3

(***************************************************************************)
(* removebackups.py: properties.                                           *)
(***************************************************************************)
FromSource(entries) == {e \in entries : e.id[1] = "source"}

\* C17: the entries of source_folder whose names end with the extension are
\* tried one after the other, each exactly once whatever happened to the
\* ones before; each is moved into backup_folder or, its move having failed,
\* is still in source_folder; every other entry stays in source_folder;
\* backup_folder exists afterwards; and while source_folder does not exist
\* no entry moves and backup_folder is not created.
C17_MovesExactlyExtension ==
    /\ [](script = "backup" =>
            /\ pc \in {"move", "done"} /\ sourceExists =>
                  /\ backupExists
                  /\ Len(printed) = move_i - 1
                  /\ \A n \in listed : ~EndsWith(n, extension) =>
                        /\ Entry("source", n) \in sourceEntries
                        /\ Entry("source", n) \notin backupEntries
                  /\ \A k \in 1..(move_i - 1) :
                        \/ /\ printed[k] = <<"Moved file", files_to_move[k]>>
                           /\ Entry("source", files_to_move[k]) \in backupEntries \ sourceEntries
                        \/ /\ printed[k] = <<"Failed to move", files_to_move[k]>>
                           /\ Entry("source", files_to_move[k]) \in sourceEntries \ backupEntries
                  /\ \A e \in FromSource(backupEntries) : EndsWith(e.name, extension)
            /\ pc = "done" /\ sourceExists =>
                  /\ move_i = Len(files_to_move) + 1
                  /\ \A n \in listed : EndsWith(n, extension) =>
                        \E k \in 1..Len(files_to_move) : files_to_move[k] = n)
    /\ [][(script = "backup" /\ ~sourceExists) =>
              UNCHANGED <<sourceEntries, backupExists, backupEntries>>]_vars

\* a first move failed, a second one succeeded, and a file that only has
\* the extension inside its name stayed
C17_Witness ==
    /\ script = "backup" /\ pc = "done"
    /\ Len(printed) = 2
    /\ printed[1][1] = "Failed to move"
    /\ printed[2][1] = "Moved file"
    /\ \E e \in sourceEntries : e.name = <<"a">> \o extension \o <<".", "b", "a", "k">>

(***************************************************************************)
(* Transactions of all scripts.                                            *)
(***************************************************************************)
Transactions == <<typeTx, loadTx, replaceTx, orderTx, t_fam, t_load, t_replace>>

\* C18: every transaction a script has started is committed or rolled back
\* by a call of Commit or RollBack: none is left to the end of its with
\* block without either, and none is still started when the script ends.
C18_TransactionsClosed ==
    \A k \in 1..Len(Transactions) :
        /\ Transactions[k] # "disposed"
        /\ pc \in {"done", "crashed", "exited"} => Transactions[k] # "started"

====
